---- MODULE Spec2Model ----
(***************************************************************************)
(* Eventos-Campinas: the source-aggregation pipeline.                      *)
(*   - App (React component): handleSearch, processSourcesInBatches,       *)
(*     processNext, handleManualFinish, handleRemoveEvent, setStep.        *)
(*   - services/api.ts: fetchEventsFromSource (40 s client-side abort).    *)
(*   - server.js: POST /api/search-source (fetch, sufficiency, extraction).*)
(* JavaScript runs one task at a time: every action below is one          *)
(* synchronous stretch of code between two awaits.                         *)
(***************************************************************************)
EXTENDS Integers, Sequences, FiniteSets, TLC

VARIABLES
    SOURCES,         \* the source list handed to processSourcesInBatches
    concurrency,     \* the concurrency handed to processSourcesInBatches
    step,            \* useState<AppStep>
    loading,         \* useState(false)
    events,          \* useState<B2BEvent[]>
    warnings,        \* useState<string[]>
    sourceStatuses,  \* useState<SourceStatus[]>
    runs,            \* one entry per call of processSourcesInBatches: queue + workers
    got,             \* history: per source, the result its last settled task returned
    writes,          \* history: per source, number of status writes since the last reset
    merges,          \* history: per source, number of setEvents calls since the last reset
    mergeTest,       \* harness of the merge updater (pure function)
    fetchTest,       \* harness of fetchEventsFromSource (pure function)
    handlerTest      \* harness of the handler of /api/search-source, step by step

vars == <<SOURCES, concurrency, step, loading, events, warnings, sourceStatuses,
          runs, got, writes, merges, mergeTest, fetchTest, handlerTest>>

-----------------------------------------------------------------------------
(* Bounds of the model *)

MaxSources == 3       \* longest source list of a single run (SpecRun)
MaxAppSources == 2    \* longest source list of the whole application (Spec)
MaxRuns == 2          \* searches the user starts
MaxListLen == 2       \* longest list handed to the merge harness

(* Program constants *)

PrefixLen == 15
FrontendTimeout == 40000
SerperTimeout == 30000
FirecrawlTimeout == 90000
AiTimeout == 60000
MinContentLength == 50

Undefined == "undefined"

Min(a, b) == IF a <= b THEN a ELSE b

-----------------------------------------------------------------------------
(* Strings: a title is a sequence of one-character strings. *)

UpperChars == <<"A","B","C","D","E","F","G","H","I","J","K","L","M",
                "N","O","P","Q","R","S","T","U","V","W","X","Y","Z">>
LowerChars == <<"a","b","c","d","e","f","g","h","i","j","k","l","m",
                "n","o","p","q","r","s","t","u","v","w","x","y","z">>

ToLowerChar(c) ==
    IF \E i \in 1..Len(UpperChars) : UpperChars[i] = c
    THEN LowerChars[CHOOSE i \in 1..Len(UpperChars) : UpperChars[i] = c]
    ELSE c

\* String.prototype.toLowerCase
ToLowerCase(s) == [i \in 1..Len(s) |-> ToLowerChar(s[i])]

\* String.prototype.slice(0, n)
Slice(s, n) == SubSeq(s, 1, Min(n, Len(s)))

\* does needle occur in hay at (1-based) offset i
MatchAt(hay, needle, i) ==
    \A k \in 1..Len(needle) : hay[i + k - 1] = needle[k]

RECURSIVE IncludesFrom(_, _, _)
IncludesFrom(hay, needle, i) ==
    IF i + Len(needle) - 1 > Len(hay) THEN FALSE
    ELSE IF MatchAt(hay, needle, i) THEN TRUE
    ELSE IncludesFrom(hay, needle, i + 1)

\* String.prototype.includes
Includes(hay, needle) == IncludesFrom(hay, needle, 1)

TitleSummit2024 == <<"A","n","n","u","a","l"," ","H","R"," ","S","u","m","m","i","t"," ","2","0","2","4">>
TitleSummitHall == <<"A","n","n","u","a","l"," ","H","R"," ","S","u","m","m","i","t"," ","-"," ","M","a","i","n"," ","H","a","l","l">>
TitleDifferent  == <<"C","o","m","p","l","e","t","e","l","y"," ","D","i","f","f","e","r","e","n","t"," ","T","a","l","k">>
TitleAnnual     == <<"A","N","N","U","A","L">>
TitleEmpty      == <<>>

Ev(t) == [title |-> t]

-----------------------------------------------------------------------------
(* The merge: the setEvents updater of processNext *)

\* (mutant) the accumulated title is compared without toLowerCase
IsDuplicate_CaseSensitive(prev, ne) ==
    \E k \in 1..Len(prev) :
        Includes(prev[k].title, Slice(ToLowerCase(ne.title), PrefixLen))

\* (mutant) the test is turned round: the incoming title against the accumulated prefix
IsDuplicate_Reversed(prev, ne) ==
    \E k \in 1..Len(prev) :
        Includes(ToLowerCase(ne.title), Slice(ToLowerCase(prev[k].title), PrefixLen))

\* (mutant) nothing is taken for a duplicate
IsDuplicate_Never(prev, ne) == FALSE

IsDuplicate(prev, ne) ==
    \E k \in 1..Len(prev) :
        Includes(ToLowerCase(prev[k].title), Slice(ToLowerCase(ne.title), PrefixLen))

\* (mutant) the survivors are put in front of the existing list
Merge_Prepend(prev, foundEvents) ==
    SelectSeq(foundEvents, LAMBDA ne : ~IsDuplicate(prev, ne)) \o prev

Merge(prev, foundEvents) ==
    prev \o SelectSeq(foundEvents, LAMBDA ne : ~IsDuplicate(prev, ne))

-----------------------------------------------------------------------------
(* POST /api/search-source (server.js).  env is what the handler meets:     *)
(* whether the Serper key is configured, how long the upstream fetch takes  *)
(* and how it ends, how much content it yields, how long the extractor      *)
(* takes and how it ends.  A reply is the JSON body, the time (ms after     *)
(* the request) at which it is sent, and the collaborators called on the    *)
(* way ("fetch": the upstream request, "extract": generateContent).         *)

Truthy(x) == x # Undefined /\ x # ""

Reply(at, calls, evs, warning, error) ==
    [at |-> at, calls |-> calls, events |-> evs, warning |-> warning, error |-> error]

\* (mutant) the search fetch is given the scrape budget
FetchBudget_Uniform(mode) == FirecrawlTimeout

FetchBudget(mode) == IF mode = "search" THEN SerperTimeout ELSE FirecrawlTimeout

\* (mutant) the fetch failure is passed on as an error
FetchFailureReply_AsError(mode, at) ==
    Reply(at, <<"fetch">>, <<>>, Undefined,
          IF mode = "search" THEN "Timeout busca." ELSE "Timeout site.")

\* the inner catch of either fetch branch
FetchFailureReply(mode, at) ==
    Reply(at, <<"fetch">>, <<>>,
          IF mode = "search" THEN "Timeout busca." ELSE "Timeout site.", Undefined)

\* (mutant) the outer catch answers with a warning
OuterCatchReply_AsWarning(at, message) ==
    Reply(at, <<"fetch", "extract">>, <<>>, message, Undefined)

\* the outer catch: res.json({ events: [], error: error.message })
OuterCatchReply(at, message) == Reply(at, <<"fetch", "extract">>, <<>>, Undefined, message)

\* withTimeout(aiPromise, 60000) and what follows it
ExtractionReply(env, start) ==
    IF env.aiLat >= AiTimeout THEN OuterCatchReply(start + AiTimeout, "Timeout Interno IA")
    ELSE IF env.aiOut = "throw" THEN OuterCatchReply(start + env.aiLat, "AI error")
    ELSE IF env.aiOut = "badjson" THEN OuterCatchReply(start + env.aiLat, "SyntaxError")
    ELSE IF env.aiOut = "notext"
    THEN Reply(start + env.aiLat, <<"fetch", "extract">>, <<>>, Undefined, Undefined)
    ELSE Reply(start + env.aiLat, <<"fetch", "extract">>, env.aiEvents, Undefined, Undefined)

\* (mutant) the missing key is answered as an error
MissingSerperReply_AsError == Reply(0, <<>>, <<>>, Undefined, "Sem chave Serper")

\* if (!SERPER_KEY) return res.json({ events: [], warning: "Sem chave Serper" })
MissingSerperReply == Reply(0, <<>>, <<>>, "Sem chave Serper", Undefined)

\* (mutant) only the empty content is refused
InsufficientContent_EmptyOnly(len) == len = 0

\* if (!contentToAnalyze || contentToAnalyze.length < 50)
InsufficientContent(len) == len = 0 \/ len < MinContentLength

\* The scrape branch does not look at FIRECRAWL_KEY: the request goes out with
\* `Bearer ${FIRECRAWL_KEY}` whatever the key is, and env says how it ends.
SearchSourceHandler(mode, env) ==
    IF mode = "search" /\ ~env.hasSerper
    THEN MissingSerperReply
    ELSE IF env.fetchLat >= FetchBudget(mode)
    THEN FetchFailureReply(mode, FetchBudget(mode))
    ELSE IF env.fetchOut # "ok"
    THEN FetchFailureReply(mode, env.fetchLat)
    ELSE IF InsufficientContent(env.contentLen)
    THEN Reply(env.fetchLat, <<"fetch">>, <<>>, "Conteudo vazio ou insuficiente.", Undefined)
    ELSE ExtractionReply(env, env.fetchLat)

-----------------------------------------------------------------------------
(* fetchEventsFromSource (services/api.ts).  net is what the browser's      *)
(* fetch meets: "ok", "http" (a non-ok status), "network" (fetch rejects),  *)
(* "badjson" (response.json() rejects).                                     *)

Fulfilled(evs, warning, error) ==
    [settled |-> "fulfilled", events |-> evs, warning |-> warning, error |-> error]
Rejected(message) ==
    [settled |-> "rejected", events |-> <<>>, warning |-> Undefined, error |-> message]

\* the try block: either a thrown message or the returned object
FetchTry(reply, net) ==
    IF reply.at >= FrontendTimeout THEN [thrown |-> TRUE, message |-> "AbortError"]
    ELSE IF net = "network" THEN [thrown |-> TRUE, message |-> "Failed to fetch"]
    ELSE IF net = "http" THEN [thrown |-> TRUE, message |-> "Erro HTTP"]
    ELSE IF net = "badjson" THEN [thrown |-> TRUE, message |-> "SyntaxError"]
    ELSE [thrown |-> FALSE,
          \* data.events || [] : every reply of the handler carries an events array
          value |-> Fulfilled(reply.events, reply.warning, reply.error)]

\* (mutant) the catch rethrows
FetchCatch_Rethrows(message) == Rejected(message)

\* the catch block
FetchCatch(message) == Fulfilled(<<>>, Undefined, message)

FetchEventsFromSource(reply, net) ==
    LET t == FetchTry(reply, net)
    IN  IF t.thrown THEN FetchCatch(t.message) ELSE t.value

-----------------------------------------------------------------------------
(* The environments a task can meet *)

Latencies == {1000, 35000, 100000}

EventLists ==
    { <<>>,
      <<Ev(TitleSummit2024)>>,
      <<Ev(TitleSummitHall), Ev(TitleDifferent)>> }

Envs ==
    [ net : {"ok", "http", "network", "badjson"},
      hasSerper : BOOLEAN,
      hasFirecrawl : BOOLEAN,
      fetchLat : Latencies,
      \* "reject": the upstream fetch rejects; "status": it answers with a non-ok status
      fetchOut : {"ok", "reject", "status"},
      contentLen : {0, MinContentLength - 1, MinContentLength},
      aiLat : Latencies,
      aiOut : {"ok", "throw", "badjson", "notext"},
      aiEvents : EventLists ]

Task(mode, env) == FetchEventsFromSource(SearchSourceHandler(mode, env), env.net)

TaskResultsSearch == { Task("search", env) : env \in Envs }
TaskResultsScrape == { Task("scrape", env) : env \in Envs }
TaskResults(mode) == IF mode = "search" THEN TaskResultsSearch ELSE TaskResultsScrape

-----------------------------------------------------------------------------
(* The component's state and the scheduler (App, processSourcesInBatches)   *)

\* A source is [id, mode]; its display name is determined by its id, and the
\* warning `${source.name}: ${warning}` is the pair <<id, warning>>.
\* the shipped list has its one search source first, the scrape sources after it;
\* lists with the search source last are drawn too
SourceLists(max) ==
    UNION { { [i \in 1..n |-> [id |-> i, mode |-> IF i = p THEN "search" ELSE "scrape"]] :
                p \in {1, n} } : n \in 1..max }

NoResult == [settled |-> "none", events |-> <<>>, warning |-> Undefined, threw |-> FALSE]

\* SOURCES.map(s => ({ id, name, status: 'pending', count: 0 }))
PendingStatuses(sources) ==
    [i \in 1..Len(sources) |-> [id |-> sources[i].id, status |-> "pending", count |-> 0]]

\* (mutant) the 'loading' write is left out
MarkLoading_Skipped(prev, id) == prev

\* prev.map(s => s.id === source.id ? { ...s, status: 'loading' } : s)
MarkLoading(prev, id) ==
    [i \in 1..Len(prev) |->
        IF prev[i].id = id THEN [prev[i] EXCEPT !.status = "loading"] ELSE prev[i]]

\* (mutant) the outcome is written to every entry that is 'loading', not to the id's
MarkOutcome_EveryLoading(prev, id, status, count) ==
    [i \in 1..Len(prev) |->
        IF prev[i].status = "loading" THEN [prev[i] EXCEPT !.status = status, !.count = count]
        ELSE prev[i]]

\* (mutant) the entry is taken out and put back at the end of the list
MarkOutcome_MovedToEnd(prev, id, status, count) ==
    SelectSeq(prev, LAMBDA s : s.id # id) \o <<[id |-> id, status |-> status, count |-> count]>>

\* prev.map(s => s.id === source.id ? { ...s, status, count } : s)
MarkOutcome(prev, id, status, count) ==
    [i \in 1..Len(prev) |->
        IF prev[i].id = id THEN [prev[i] EXCEPT !.status = status, !.count = count]
        ELSE prev[i]]

\* the status write counted per entry it touches
CountWrite(wr, prev, id) ==
    [i \in 1..Len(wr) |-> IF prev[i].id = id THEN wr[i] + 1 ELSE wr[i]]

\* Array.from(new Set([...prev, msg]))
AddWarning(prev, msg) ==
    IF \E i \in 1..Len(prev) : prev[i] = msg THEN prev ELSE Append(prev, msg)

\* The scheduler's working state while one synchronous stretch runs:
\*   queue, workers (0: returned, else the id whose fetch it awaits),
\*   statuses, writes.

\* (mutant) the head of the queue is read but not removed
ProcessNextBegin_Peek(m, w) ==
    IF Len(m.queue) = 0
    THEN [m EXCEPT !.workers[w] = 0]
    ELSE LET source == Head(m.queue)
         IN  [queue |-> m.queue,
              workers |-> [m.workers EXCEPT ![w] = source.id],
              statuses |-> MarkLoading(m.statuses, source.id),
              writes |-> CountWrite(m.writes, m.statuses, source.id)]

\* processNext up to its await: the empty-queue return, or shift + 'loading'
ProcessNextBegin(m, w) ==
    IF Len(m.queue) = 0
    THEN [m EXCEPT !.workers[w] = 0]
    ELSE LET source == Head(m.queue)
         IN  [queue |-> Tail(m.queue),
              workers |-> [m.workers EXCEPT ![w] = source.id],
              statuses |-> MarkLoading(m.statuses, source.id),
              writes |-> CountWrite(m.writes, m.statuses, source.id)]

\* (mutant) the worker returns after its first source
ProcessNextTail_NoRecursion(m, w) == [m EXCEPT !.workers[w] = 0]

\* if (queue.length > 0) await processNext();  else the worker's promise resolves
ProcessNextTail(m, w) ==
    IF Len(m.queue) > 0 THEN ProcessNextBegin(m, w) ELSE [m EXCEPT !.workers[w] = 0]

\* (mutant) i <= concurrency: one call of processNext too many
RECURSIVE LaunchWorkers_OneMore(_, _, _)
LaunchWorkers_OneMore(m, i, c) ==
    IF i > c + 1 THEN m ELSE LaunchWorkers_OneMore(ProcessNextBegin(m, i), i + 1, c)

\* for (let i = 0; i < concurrency; i++) activePromises.push(processNext())
RECURSIVE LaunchWorkers(_, _, _)
LaunchWorkers(m, i, c) ==
    IF i > c THEN m ELSE LaunchWorkers(ProcessNextBegin(m, i), i + 1, c)

\* (mutant) a result carrying `error` is not thrown
TaskThrows_IgnoresError(res) == res.settled = "rejected"

\* the catch of processNext is entered: the awaited call rejected or `error` is set
TaskThrows(res) == res.settled = "rejected" \/ Truthy(res.error)

\* (mutant) no catch: the success path's write runs whatever happened
OutcomeStatus_NoCatch(threw) == "completed"

\* the status and count written: by the catch when something threw, else after the merge
OutcomeStatus(threw) == IF threw THEN "error" ELSE "completed"

\* (mutant) the success path leaves the count at 0
OutcomeCount_Zero(threw, foundEvents) == 0

\* count: foundEvents.length on the success path, 0 in the catch
OutcomeCount(threw, foundEvents) == IF threw THEN 0 ELSE Len(foundEvents)

\* (mutant) the error message is reported as a warning too
WarningsAfter_ErrorToo(prev, source, res) ==
    IF Truthy(res.warning) \/ Truthy(res.error)
    THEN AddWarning(prev, <<source.id, IF Truthy(res.warning) THEN res.warning ELSE res.error>>)
    ELSE prev

\* (mutant) the message is recorded without the source's name
WarningsAfter_Unprefixed(prev, source, res) ==
    IF res.settled = "fulfilled" /\ Truthy(res.warning)
    THEN AddWarning(prev, <<0, res.warning>>)
    ELSE prev

\* if (warning) setWarnings(...)
WarningsAfter(prev, source, res) ==
    IF res.settled = "fulfilled" /\ Truthy(res.warning)
    THEN AddWarning(prev, <<source.id, res.warning>>)
    ELSE prev

\* (mutant) the merge starts from the list the closure captured when the run
\* began, not from the updater's argument
EventsAfter_Stale(prev, res) == IF TaskThrows(res) THEN prev ELSE Merge(<<>>, res.events)

\* setEvents(prev => ...) is reached only when nothing was thrown
EventsAfter(prev, res) == IF TaskThrows(res) THEN prev ELSE Merge(prev, res.events)

\* one call of setEvents per task that did not throw
MergesAfter(prev, source, res) ==
    IF TaskThrows(res) THEN prev ELSE [prev EXCEPT ![source.id] = @ + 1]

\* what processNext reads of a result: the message of `error` is never looked at
Observed(res) ==
    [settled |-> res.settled, events |-> res.events, warning |-> res.warning,
     threw |-> TaskThrows(res)]

RunCompleted(run) == \A w \in DOMAIN run.workers : run.workers[w] = 0
SourceById(id) == CHOOSE s \in {SOURCES[i] : i \in 1..Len(SOURCES)} : s.id = id

IdleMergeTest == [acc |-> <<>>, incoming |-> <<>>, results |-> <<>>]
PendingResult == [settled |-> "pending", events |-> <<>>, warning |-> Undefined, error |-> Undefined]
NoReply == Reply(0, <<>>, <<>>, Undefined, Undefined)
IdleFetchTest == [mode |-> "scrape", env |-> Undefined, reply |-> NoReply, result |-> PendingResult]
IdleHandlerTest ==
    [mode |-> "scrape", env |-> Undefined, pc |-> "idle", sent |-> <<>>,
     timer |-> "none", aiPromise |-> "none"]

AppInit ==
    /\ step = "home"
    /\ loading = FALSE
    /\ events = <<>>
    /\ warnings = <<>>
    /\ sourceStatuses = PendingStatuses(SOURCES)
    /\ runs = <<>>
    /\ got = [i \in 1..Len(SOURCES) |-> NoResult]
    /\ writes = [i \in 1..Len(SOURCES) |-> 0]
    /\ merges = [i \in 1..Len(SOURCES) |-> 0]

\* concurrency beyond one surplus worker adds only more workers that return at once
Init ==
    /\ SOURCES \in SourceLists(MaxAppSources)
    /\ concurrency \in 1..(Len(SOURCES) + 1)
    /\ AppInit
    /\ mergeTest = IdleMergeTest
    /\ fetchTest = IdleFetchTest
    /\ handlerTest = IdleHandlerTest

\* handleSearch up to its await, with the synchronous part of processSourcesInBatches
HandleSearch ==
    /\ step = "home"
    /\ ~loading
    /\ Len(runs) < MaxRuns
    /\ LET m0 == [queue |-> SOURCES,
                  workers |-> [w \in 1..concurrency |-> 0],
                  statuses |-> PendingStatuses(SOURCES),
                  writes |-> [i \in 1..Len(SOURCES) |-> 0]]
           m == LaunchWorkers(m0, 1, concurrency)
       IN  /\ loading' = TRUE
           /\ step' = "loading"
           /\ events' = <<>>
           /\ warnings' = <<>>
           /\ sourceStatuses' = m.statuses
           /\ writes' = m.writes
           /\ runs' = Append(runs, [queue |-> m.queue, workers |-> m.workers])
           /\ got' = [i \in 1..Len(SOURCES) |-> NoResult]
           /\ merges' = [i \in 1..Len(SOURCES) |-> 0]
    /\ UNCHANGED <<SOURCES, concurrency, mergeTest, fetchTest, handlerTest>>

\* (mutant) setLoading(false) is left out
LoadingAfterRun_Forgotten(done, cur) == cur

\* the rest of handleSearch, once Promise.all(activePromises) has resolved
LoadingAfterRun(done, cur) == IF done THEN FALSE ELSE cur

\* (mutant) setStep('curation') whatever the current step
StepAfterRun_Unconditional(done, cur) == IF done THEN "curation" ELSE cur

\* setStep(current => current === 'loading' ? 'curation' : current)
StepAfterRun(done, cur) == IF done /\ cur = "loading" THEN "curation" ELSE cur

\* the awaited fetchEventsFromSource of worker w of run r settles with res:
\* the rest of processNext, and of handleSearch when this was the last worker
SettleWith(r, w, res) ==
    LET run == runs[r]
        source == SourceById(run.workers[w])
        st == MarkOutcome(sourceStatuses, source.id, OutcomeStatus(TaskThrows(res)),
                          OutcomeCount(TaskThrows(res), res.events))
        m == ProcessNextTail([queue |-> run.queue,
                              workers |-> run.workers,
                              statuses |-> st,
                              writes |-> CountWrite(writes, sourceStatuses, source.id)], w)
        done == RunCompleted(m)
    IN  /\ warnings' = WarningsAfter(warnings, source, res)
        /\ events' = EventsAfter(events, res)
        /\ sourceStatuses' = m.statuses
        /\ writes' = m.writes
        /\ runs' = [runs EXCEPT ![r] = [queue |-> m.queue, workers |-> m.workers]]
        /\ got' = [got EXCEPT ![source.id] = Observed(res)]
        /\ merges' = MergesAfter(merges, source, res)
        /\ loading' = LoadingAfterRun(done, loading)
        /\ step' = StepAfterRun(done, step)
        /\ UNCHANGED <<SOURCES, concurrency, mergeTest, fetchTest, handlerTest>>

Settle(r, w) ==
    /\ r \in 1..Len(runs)
    /\ w \in DOMAIN runs[r].workers
    /\ runs[r].workers[w] # 0
    /\ \E res \in TaskResults(SourceById(runs[r].workers[w]).mode) : SettleWith(r, w, res)

HandleManualFinish ==
    /\ step = "loading"
    /\ loading' = FALSE
    /\ step' = "curation"
    /\ UNCHANGED <<SOURCES, concurrency, events, warnings, sourceStatuses, runs, got,
                   writes, merges, mergeTest, fetchTest, handlerTest>>

\* the buttons "Nova Busca" / "Tentar novamente", "Gerar Relatorio", "Voltar"
SetStep(from, to) ==
    /\ step = from
    /\ step' = to
    /\ UNCHANGED <<SOURCES, concurrency, loading, events, warnings, sourceStatuses, runs,
                   got, writes, merges, mergeTest, fetchTest, handlerTest>>

SetStepHome == SetStep("curation", "home")
SetStepReport == Len(events) > 0 /\ SetStep("curation", "report")
SetStepCuration == SetStep("report", "curation")

\* setEvents(events.filter((_, index) => index !== indexToRemove))
RemoveAt(list, i) == SubSeq(list, 1, i - 1) \o SubSeq(list, i + 1, Len(list))

HandleRemoveEvent(i) ==
    /\ step = "curation"
    /\ i \in 1..Len(events)
    /\ events' = RemoveAt(events, i)
    /\ UNCHANGED <<SOURCES, concurrency, step, loading, warnings, sourceStatuses, runs,
                   got, writes, merges, mergeTest, fetchTest, handlerTest>>

Next ==
    \/ HandleSearch
    \/ \E r \in 1..MaxRuns, w \in 1..concurrency : Settle(r, w)
    \/ HandleManualFinish
    \/ SetStepHome
    \/ SetStepReport
    \/ SetStepCuration
    \/ \E i \in 1..(2 * MaxSources * MaxRuns) : HandleRemoveEvent(i)

Spec == Init /\ [][Next]_vars

(* One run, from the initial state, that the user leaves alone *)
FirstSearch == runs = <<>> /\ HandleSearch

InitRun ==
    /\ SOURCES \in SourceLists(MaxSources)
    /\ concurrency \in 1..(Len(SOURCES) + 1)
    /\ AppInit
    /\ mergeTest = IdleMergeTest
    /\ fetchTest = IdleFetchTest
    /\ handlerTest = IdleHandlerTest

\* one of the run's requests settles
SettleSome == \E w \in 1..concurrency : Settle(1, w)

NextRun ==
    \/ FirstSearch
    \/ SettleSome

SpecRun == InitRun /\ [][NextRun]_vars

\* while requests are in flight, one of them settles: the 40 s abort of
\* fetchEventsFromSource bounds each
FairRun == SpecRun /\ WF_vars(SettleSome)

(* One run, with everything the user can do meanwhile short of a new search *)
NextEarly ==
    \/ FirstSearch
    \/ SettleSome
    \/ HandleManualFinish
    \/ SetStepHome
    \/ SetStepReport
    \/ SetStepCuration
    \/ \E i \in 1..(2 * MaxSources) : HandleRemoveEvent(i)

SpecEarly == Init /\ [][NextEarly]_vars

\* as FairRun: the requests in flight settle, whatever the user does meanwhile
FairEarly == SpecEarly /\ WF_vars(SettleSome)

-----------------------------------------------------------------------------
(* Harness of the merge: the updater applied twice to drawn lists *)

TitlePool == {TitleSummit2024, TitleSummitHall, TitleDifferent, TitleAnnual, TitleEmpty}

RECURSIVE ListsUpTo(_)
ListsUpTo(n) ==
    IF n = 0 THEN {<<>>}
    ELSE LET shorter == ListsUpTo(n - 1)
         IN  shorter \cup {Append(l, Ev(t)) : l \in {x \in shorter : Len(x) = n - 1}, t \in TitlePool}

HarnessApp ==
    /\ SOURCES = <<[id |-> 1, mode |-> "search"]>>
    /\ concurrency = 1
    /\ AppInit

InitMerge ==
    /\ HarnessApp
    /\ mergeTest \in [acc : ListsUpTo(MaxListLen), incoming : ListsUpTo(MaxListLen), results : {<<>>}]
    /\ fetchTest = IdleFetchTest
    /\ handlerTest = IdleHandlerTest

\* setEvents(prev => merge(prev, incoming)), prev being the latest value
MergeApply ==
    /\ Len(mergeTest.results) < 2
    /\ LET prev == IF mergeTest.results = <<>> THEN mergeTest.acc
                   ELSE mergeTest.results[Len(mergeTest.results)]
       IN  mergeTest' = [mergeTest EXCEPT !.results = Append(@, Merge(prev, mergeTest.incoming))]
    /\ UNCHANGED <<SOURCES, concurrency, step, loading, events, warnings, sourceStatuses,
                   runs, got, writes, merges, fetchTest, handlerTest>>

SpecMerge == InitMerge /\ [][MergeApply]_vars

-----------------------------------------------------------------------------
(* Harness of fetchEventsFromSource: one call, and the handler's reply to it, in a
   drawn environment *)

InitFetch ==
    /\ HarnessApp
    /\ mergeTest = IdleMergeTest
    /\ fetchTest \in [mode : {"search", "scrape"}, env : Envs, reply : {NoReply},
                      result : {PendingResult}]
    /\ handlerTest = IdleHandlerTest

FetchApply ==
    /\ fetchTest.result = PendingResult
    /\ fetchTest' = [fetchTest EXCEPT
                        !.reply = SearchSourceHandler(fetchTest.mode, fetchTest.env),
                        !.result = Task(fetchTest.mode, fetchTest.env)]
    /\ UNCHANGED <<SOURCES, concurrency, step, loading, events, warnings, sourceStatuses,
                   runs, got, writes, merges, mergeTest, handlerTest>>

SpecFetch == InitFetch /\ [][FetchApply]_vars

-----------------------------------------------------------------------------
(* The handler of /api/search-source step by step: one request with url and  *)
(* sourceName present, in a drawn environment.  pc is the await the handler  *)
(* stands at, sent the responses written so far, timer the timer of          *)
(* withTimeout, aiPromise the promise of generateContent.                    *)

\* the browser's side (net) plays no part in the handler
HandlerEnvs == {env \in Envs : env.net = "ok"}

\* res.json(...) on a path that ends the handler: a return, the last statement of
\* the try block, or the outer catch
Respond(h, reply) == [h EXCEPT !.sent = Append(@, reply), !.pc = "done"]

\* (mutant) every settlement of a member of the race continues the handler
AfterRace_AnswersAgain(h, reply) == Respond(h, reply)

\* await withTimeout(...): Promise.race takes the first settlement of its members;
\* a member that settles later continues nothing
AfterRace(h, reply) == IF h.pc = "extracting" THEN Respond(h, reply) ELSE h

\* from the request to the first await: the missing key, or the fetch goes out
HandlerReceive ==
    /\ handlerTest.pc = "received"
    /\ handlerTest' =
          IF handlerTest.mode = "search" /\ ~handlerTest.env.hasSerper
          THEN Respond(handlerTest, MissingSerperReply)
          ELSE [handlerTest EXCEPT !.pc = "fetching"]
    /\ UNCHANGED <<SOURCES, concurrency, step, loading, events, warnings, sourceStatuses,
                   runs, got, writes, merges, mergeTest, fetchTest>>

\* the fetch settles or its controller aborts it: the inner catch, the content
\* check, or the extractor is called under withTimeout
HandlerFetchSettles ==
    /\ handlerTest.pc = "fetching"
    /\ LET mode == handlerTest.mode
           env == handlerTest.env
       IN  handlerTest' =
              IF env.fetchLat >= FetchBudget(mode)
              THEN Respond(handlerTest, FetchFailureReply(mode, FetchBudget(mode)))
              ELSE IF env.fetchOut # "ok"
              THEN Respond(handlerTest, FetchFailureReply(mode, env.fetchLat))
              ELSE IF InsufficientContent(env.contentLen)
              THEN Respond(handlerTest, Reply(env.fetchLat, <<"fetch">>, <<>>,
                                              "Conteudo vazio ou insuficiente.", Undefined))
              ELSE [handlerTest EXCEPT !.pc = "extracting", !.aiPromise = "pending",
                                       !.timer = "armed"]
    /\ UNCHANGED <<SOURCES, concurrency, step, loading, events, warnings, sourceStatuses,
                   runs, got, writes, merges, mergeTest, fetchTest>>

\* what the handler does with a fulfilled aiPromise: the parse and the reply
ParsedReply(env, at) ==
    IF env.aiOut = "badjson" THEN OuterCatchReply(at, "SyntaxError")
    ELSE IF env.aiOut = "notext" THEN Reply(at, <<"fetch", "extract">>, <<>>, Undefined, Undefined)
    ELSE Reply(at, <<"fetch", "extract">>, env.aiEvents, Undefined, Undefined)

\* aiPromise settles, before the timer or after it fired.  Fulfilled, the callback
\* of promise.then clears the timer; rejected, the callback is skipped and the
\* timer stays armed.
AiSettles ==
    /\ handlerTest.aiPromise = "pending"
    /\ handlerTest.env.aiLat < AiTimeout \/ handlerTest.timer = "fired"
    /\ LET env == handlerTest.env
           at == env.fetchLat + env.aiLat
       IN  handlerTest' =
              IF env.aiOut = "throw"
              THEN [AfterRace(handlerTest, OuterCatchReply(at, "AI error"))
                       EXCEPT !.aiPromise = "rejected"]
              ELSE [AfterRace(handlerTest, ParsedReply(env, at))
                       EXCEPT !.aiPromise = "fulfilled",
                              !.timer = IF @ = "armed" THEN "cleared" ELSE @]
    /\ UNCHANGED <<SOURCES, concurrency, step, loading, events, warnings, sourceStatuses,
                   runs, got, writes, merges, mergeTest, fetchTest>>

\* the timer of withTimeout fires: before aiPromise settles, or after aiPromise
\* was rejected (nothing cleared it)
AiTimerFires ==
    /\ handlerTest.timer = "armed"
    /\ handlerTest.env.aiLat >= AiTimeout \/ handlerTest.aiPromise = "rejected"
    /\ handlerTest' =
          [AfterRace(handlerTest, OuterCatchReply(handlerTest.env.fetchLat + AiTimeout,
                                                  "Timeout Interno IA"))
              EXCEPT !.timer = "fired"]
    /\ UNCHANGED <<SOURCES, concurrency, step, loading, events, warnings, sourceStatuses,
                   runs, got, writes, merges, mergeTest, fetchTest>>

InitHandler ==
    /\ HarnessApp
    /\ mergeTest = IdleMergeTest
    /\ fetchTest = IdleFetchTest
    /\ handlerTest \in [mode : {"search", "scrape"}, env : HandlerEnvs, pc : {"received"},
                        sent : {<<>>}, timer : {"none"}, aiPromise : {"none"}]

NextHandler ==
    \/ HandlerReceive
    \/ HandlerFetchSettles
    \/ AiSettles
    \/ AiTimerFires

SpecHandler == InitHandler /\ [][NextHandler]_vars

-----------------------------------------------------------------------------
(* Properties of one run (SpecRun, FairRun) *)

Terminal(status) == status \in {"completed", "error"}
AllTerminal == \A i \in 1..Len(sourceStatuses) : Terminal(sourceStatuses[i].status)
Started == runs # <<>>
Completed == Started /\ RunCompleted(runs[1])
InFlight(run) == {w \in DOMAIN run.workers : run.workers[w] # 0}
Loading == {i \in 1..Len(sourceStatuses) : sourceStatuses[i].status = "loading"}

\* C1: once the run's Promise.all has resolved (every worker has returned), every
\* source's status is 'completed' or 'error'; none is 'pending' or 'loading'.
C1_TerminalAtCompletion == Completed => AllTerminal

\* a completed run that had to queue sources, ending with both terminal statuses
C1_Witness ==
    /\ Completed
    /\ concurrency < Len(SOURCES)
    /\ \E i, j \in 1..Len(sourceStatuses) :
          sourceStatuses[i].status = "completed" /\ sourceStatuses[j].status = "error"

\* the step in which the task of source id settles with a thrown error
FailsNow(id) == got[id] = NoResult /\ got'[id] # NoResult /\ got'[id].threw

WorkerOf(id) == CHOOSE w \in DOMAIN runs[1].workers : runs[1].workers[w] = id

\* C2: when a source's task ends in an error, its status becomes 'error' with count 0,
\* the same worker takes the next queued source (if any), no other worker and no
\* other source's entry is touched, and the run still brings every source to a
\* terminal status.
C2_FailureIsolated ==
    /\ [][\A id \in 1..Len(SOURCES) : FailsNow(id) =>
            LET w == WorkerOf(id)
                queued == runs[1].queue
                next == IF queued = <<>> THEN 0 ELSE Head(queued).id
            IN  /\ sourceStatuses'[id] = [id |-> id, status |-> "error", count |-> 0]
                /\ runs'[1].workers[w] = next
                /\ \A v \in DOMAIN runs[1].workers \ {w} :
                      runs'[1].workers[v] = runs[1].workers[v]
                /\ \A j \in 1..Len(SOURCES) \ {id, next} :
                      sourceStatuses'[j] = sourceStatuses[j]
                /\ next # 0 => sourceStatuses'[next].status = "loading"]_vars
    /\ (\E id \in 1..Len(SOURCES) : got[id].threw) ~> (Completed /\ AllTerminal)

\* a source failed, its worker went on, and another source completed with events
C2_Witness ==
    /\ Completed
    /\ concurrency < Len(SOURCES)
    /\ got[1].threw
    /\ \E j \in 2..Len(SOURCES) : sourceStatuses[j].status = "completed" /\ sourceStatuses[j].count > 0

\* The scenario of C3: sources [a (scrape), b (search)]; the upstream fetch of a never
\* answers within its 90 s budget; b's fetch and extraction answer in time with two
\* events that are not duplicates of each other.
SourceA == [id |-> 1, mode |-> "scrape"]
SourceB == [id |-> 2, mode |-> "search"]
TwoEvents == <<Ev(TitleSummitHall), Ev(TitleDifferent)>>
EnvFetchTimesOut ==
    [net |-> "ok", hasSerper |-> TRUE, hasFirecrawl |-> TRUE, fetchLat |-> 100000, fetchOut |-> "ok",
     contentLen |-> MinContentLength, aiLat |-> 1000, aiOut |-> "ok", aiEvents |-> <<>>]
EnvTwoEvents ==
    [net |-> "ok", hasSerper |-> TRUE, hasFirecrawl |-> TRUE, fetchLat |-> 1000, fetchOut |-> "ok",
     contentLen |-> MinContentLength, aiLat |-> 1000, aiOut |-> "ok", aiEvents |-> TwoEvents]
ScenarioC3 ==
    /\ SOURCES = <<SourceA, SourceB>>
    /\ Completed
    /\ got[SourceA.id] = Observed(Task(SourceA.mode, EnvFetchTimesOut))
    /\ got[SourceB.id] = Observed(Task(SourceB.mode, EnvTwoEvents))

ScenarioC3Common ==
    /\ events = TwoEvents
    /\ sourceStatuses[SourceA.id].status = "error"
    /\ sourceStatuses[SourceB.id] = [id |-> SourceB.id, status |-> "completed", count |-> 2]

\* C3 as stated: in the scenario the run ends with exactly b's two events, a 'error',
\* b 'completed' with count 2, and exactly one warning, which names a.
C3_AsStated ==
    ScenarioC3 =>
        /\ ScenarioC3Common
        /\ Len(warnings) = 1
        /\ warnings[1][1] = SourceA.id

\* C3 amended: in the scenario the run ends with exactly b's two events, a 'error'
\* with count 0, b 'completed' with count 2, and no warning at all (the request for a
\* is aborted by the client's 40 s timer before the handler's 90 s timer can answer).
C3_TimeoutFailsWithoutWarning ==
    ScenarioC3 =>
        /\ ScenarioC3Common
        /\ sourceStatuses[SourceA.id].count = 0
        /\ warnings = <<>>

C3_Witness == ScenarioC3 /\ concurrency = 1

-----------------------------------------------------------------------------
(* Properties of the merge (SpecMerge) *)

MergedOnce == Len(mergeTest.results) >= 1
MergedTwice == Len(mergeTest.results) = 2

\* C4: merging the same incoming list a second time appends nothing: the list after
\* the second merge is exactly the list after the first.
C4_MergeIdempotent == MergedTwice => mergeTest.results[2] = mergeTest.results[1]

\* the first merge kept one candidate and discarded another; the second kept none
C4_Witness ==
    /\ MergedTwice
    /\ mergeTest.acc # <<>>
    /\ Len(mergeTest.incoming) = 2
    /\ Len(mergeTest.results[1]) = Len(mergeTest.acc) + 1

\* the dedup rule in the claim's words: some accumulated title, lower-cased, has the
\* lower-cased first 15 characters of the incoming title at some offset
LowerAt(t, i) == ToLowerChar(t[i])
RuleDiscards(acc, ne) ==
    \E k \in 1..Len(acc) :
        LET hay == acc[k].title
            n == IF Len(ne.title) < 15 THEN Len(ne.title) ELSE 15
        IN  \E off \in 0..Len(hay) :
                /\ off + n <= Len(hay)
                /\ \A j \in 1..n : LowerAt(hay, off + j) = LowerAt(ne.title, j)

\* the candidates of incoming, in order, that the rule keeps
RECURSIVE RuleKeeps(_, _)
RuleKeeps(acc, incoming) ==
    IF incoming = <<>> THEN <<>>
    ELSE (IF RuleDiscards(acc, Head(incoming)) THEN <<>> ELSE <<Head(incoming)>>)
         \o RuleKeeps(acc, Tail(incoming))

\* C5: a merge discards an incoming candidate exactly when an accumulated title
\* (lower-cased) contains the lower-cased first 15 characters of its title; the test is
\* directional.  With "Annual HR Summit 2024" accumulated, "Annual HR Summit - Main
\* Hall" is discarded and "Completely Different Talk" is kept.
C5_DedupRule ==
    MergedOnce =>
        LET acc == mergeTest.acc
            incoming == mergeTest.incoming
            out == mergeTest.results[1]
        IN  /\ out = acc \o RuleKeeps(acc, incoming)
            /\ (acc = <<Ev(TitleSummit2024)>> /\ incoming = <<Ev(TitleSummitHall)>>)
                  => out = acc
            /\ (acc = <<Ev(TitleSummit2024)>> /\ incoming = <<Ev(TitleDifferent)>>)
                  => out = <<Ev(TitleSummit2024), Ev(TitleDifferent)>>
            \* directional: the accumulated "ANNUAL" is inside the incoming title, not the reverse
            /\ (acc = <<Ev(TitleAnnual)>> /\ incoming = <<Ev(TitleSummit2024)>>)
                  => out = <<Ev(TitleAnnual), Ev(TitleSummit2024)>>
            /\ (acc = <<Ev(TitleSummit2024)>> /\ incoming = <<Ev(TitleAnnual)>>)
                  => out = acc

\* the claim's example in one merge: one candidate discarded, one kept
C5_Witness ==
    /\ MergedOnce
    /\ mergeTest.acc = <<Ev(TitleSummit2024)>>
    /\ mergeTest.incoming = <<Ev(TitleSummitHall), Ev(TitleDifferent)>>
    /\ mergeTest.results[1] = <<Ev(TitleSummit2024), Ev(TitleDifferent)>>

-----------------------------------------------------------------------------
(* The run with concurrency 1, computed with the scheduler's own steps: the single
   worker takes the sources in order, each task returning outcome[id]. *)

LaunchedWith(c) ==
    LaunchWorkers([queue |-> SOURCES,
                   workers |-> [w \in 1..c |-> 0],
                   statuses |-> PendingStatuses(SOURCES),
                   writes |-> [i \in 1..Len(SOURCES) |-> 0]], 1, c)

RECURSIVE OneWorkerLoop(_, _)
OneWorkerLoop(m, outcome) ==
    IF m.workers[1] = 0 THEN m
    ELSE LET id == m.workers[1]
             o == outcome[id]
             st == MarkOutcome(m.statuses, id, OutcomeStatus(o.threw),
                               OutcomeCount(o.threw, o.events))
         IN  OneWorkerLoop(
                 ProcessNextTail([m EXCEPT !.statuses = st,
                                           !.writes = CountWrite(m.writes, m.statuses, id)], 1),
                 outcome)

SequentialRun(outcome) == OneWorkerLoop(LaunchedWith(1), outcome)

\* C6: with each source's task outcome fixed (got), the run with any concurrency ends
\* with the same final status for every source as the run with concurrency 1, whatever
\* the order in which the tasks settle.
C6_SameStatusesAsSequential ==
    Completed =>
        \A i \in 1..Len(SOURCES) :
            sourceStatuses[i].status = SequentialRun(got).statuses[i].status

\* a concurrent run with mixed outcomes, the later source settling first
C6_Witness ==
    /\ Completed
    /\ concurrency > 1
    /\ Len(SOURCES) > concurrency
    /\ got[1].threw
    /\ ~got[2].threw
    /\ Len(events) > 0

StatusRank(status) ==
    CASE status = "pending" -> 0
      [] status = "loading" -> 1
      [] OTHER -> 2

\* C7: a source's status only moves pending -> loading -> (completed | error), one
\* write per move: the entry has been written once when it is 'loading' and exactly
\* twice when it is terminal, and no write takes it back or past a stage.
C7_StatusMonotonic ==
    /\ [][\A i \in 1..Len(SOURCES) :
            \/ sourceStatuses'[i] = sourceStatuses[i] /\ writes'[i] = writes[i]
            \/ /\ sourceStatuses[i].status = "pending"
               /\ sourceStatuses'[i].status = "loading"
               /\ writes'[i] = writes[i] + 1
            \/ /\ sourceStatuses[i].status = "loading"
               /\ Terminal(sourceStatuses'[i].status)
               /\ writes'[i] = writes[i] + 1]_vars
    /\ [](\A i \in 1..Len(SOURCES) : writes[i] = StatusRank(sourceStatuses[i].status))

C7_Witness ==
    /\ Completed
    /\ Len(SOURCES) > concurrency
    /\ \A i \in 1..Len(SOURCES) : writes[i] = 2 /\ Terminal(sourceStatuses[i].status)

\* C8: exactly `concurrency` workers are started; at most min(concurrency, number of
\* sources) tasks are ever in flight, and as many entries 'loading'; with concurrency
\* above the number of sources the surplus workers have returned from the start.
C8_BoundedParallelism ==
    Started =>
        LET run == runs[1]
            limit == Min(concurrency, Len(SOURCES))
        IN  /\ DOMAIN run.workers = 1..concurrency
            /\ Cardinality(InFlight(run)) <= limit
            /\ Cardinality(Loading) <= limit
            /\ Cardinality(Loading) = Cardinality(InFlight(run))
            /\ \A w \in (Len(SOURCES) + 1)..concurrency : run.workers[w] = 0

\* a surplus worker has returned while every source is in flight
C8_Witness ==
    /\ Started
    /\ concurrency > Len(SOURCES)
    /\ Len(SOURCES) > 1
    /\ Cardinality(Loading) = Len(SOURCES)
    /\ runs[1].workers[concurrency] = 0

\* the limit is reached with sources still queued
C8_WitnessQueued ==
    /\ Started
    /\ concurrency = 2
    /\ runs[1].queue # <<>>
    /\ Cardinality(Loading) = 2

-----------------------------------------------------------------------------
\* C9: once started, the run completes provided every request settles: every worker
\* returns, Promise.all resolves, loading is cleared and the UI leaves the 'loading'
\* step; also when every source failed or returned no event.
C9_RunCompletes ==
    /\ Started ~> (Completed /\ ~loading /\ step = "curation")
    /\ [](Completed => ~loading /\ step # "loading")

\* a run that ended with nothing: every source 'error' or with count 0, no event
C9_Witness ==
    /\ Completed
    /\ Len(SOURCES) > concurrency
    /\ events = <<>>
    /\ \A i \in 1..Len(SOURCES) : sourceStatuses[i].count = 0
    /\ \E i \in 1..Len(SOURCES) : sourceStatuses[i].status = "error"
    /\ ~loading
    /\ step = "curation"

-----------------------------------------------------------------------------
(* Properties of fetchEventsFromSource (SpecFetch) *)

Called == fetchTest.result # PendingResult
HandlerReply == SearchSourceHandler(fetchTest.mode, fetchTest.env)
AbortedByTimer == HandlerReply.at >= 40000
FailurePath == AbortedByTimer \/ fetchTest.env.net \in {"http", "network", "badjson"}

\* C10: fetchEventsFromSource always resolves to a result object and never rejects;
\* on every failure path (non-ok status, network failure, abort by the 40 s timer,
\* invalid JSON) the result has events = [] and an error message; a successful
\* response passes the body's fields through.
C10_NeverRejects ==
    Called =>
        /\ fetchTest.result.settled = "fulfilled"
        /\ FailurePath =>
              /\ fetchTest.result.events = <<>>
              /\ fetchTest.result.error \notin {Undefined, ""}
        /\ ~FailurePath =>
              /\ fetchTest.result.events = HandlerReply.events
              /\ fetchTest.result.warning = HandlerReply.warning
              /\ fetchTest.result.error = HandlerReply.error

\* the abort path: the handler would have answered, but after the 40 s timer
C10_Witness ==
    /\ Called
    /\ fetchTest.env.net = "ok"
    /\ AbortedByTimer
    /\ fetchTest.result.error = "AbortError"

\* the other paths
C10_WitnessPaths ==
    /\ Called
    /\ ~AbortedByTimer
    /\ fetchTest.env.net = "badjson"
    /\ fetchTest.result.error = "SyntaxError"

(***************************************************************************)
(* The handler's fetch step (C11, C14) and extraction step (C12)           *)
(***************************************************************************)
Answered == fetchTest.reply
KeyMissing == fetchTest.mode = "search" /\ ~fetchTest.env.hasSerper
FetchTimerFires ==
    fetchTest.env.fetchLat >= (IF fetchTest.mode = "search" THEN 30000 ELSE 90000)
FetchFails == ~KeyMissing /\ (FetchTimerFires \/ fetchTest.env.fetchOut \in {"reject", "status"})

C11_WitnessStatus ==
    /\ Called
    /\ fetchTest.mode = "search"
    /\ fetchTest.env.fetchOut = "status"
    /\ ~FetchTimerFires
    /\ Answered.warning = "Timeout busca."

ReachesExtraction ==
    /\ ~KeyMissing
    /\ ~FetchTimerFires
    /\ fetchTest.env.fetchOut = "ok"
    /\ fetchTest.env.contentLen >= 50
ExtractionFails ==
    /\ ReachesExtraction
    /\ \/ fetchTest.env.aiLat >= 60000
       \/ fetchTest.env.aiOut \in {"throw", "badjson"}

\* C12 as stated: every failure of the extraction step (the extractor call
\* failing, exceeding its time budget, or returning unparsable output) yields
\* zero events plus a warning, never an error outcome.
C12_AsStated ==
    (Called /\ ExtractionFails) =>
        /\ Answered.events = <<>>
        /\ Answered.warning \notin {Undefined, ""}
        /\ Answered.error = Undefined

\* C12 (amended): every failure of the extraction step is caught by the handler's
\* outer catch and answered once with zero events and the thrown message as
\* `error`, with no warning; the handler does not crash, and when the transport
\* delivers a body the caller's result is one the scheduler counts as a failure.
C12_ExtractionFailureIsError ==
    (Called /\ ExtractionFails) =>
        /\ Answered.calls = <<"fetch", "extract">>
        /\ Answered.events = <<>>
        /\ Answered.warning = Undefined
        /\ Answered.error \in {"Timeout Interno IA", "AI error", "SyntaxError"}
        /\ fetchTest.result.settled = "fulfilled"
        /\ fetchTest.result.events = <<>>
        /\ fetchTest.result.error \notin {Undefined, ""}

\* unparsable extractor output, answered in time for the caller to receive it
C12_Witness ==
    /\ Called
    /\ ExtractionFails
    /\ fetchTest.env.aiOut = "badjson"
    /\ fetchTest.env.net = "ok"
    /\ Answered.at < 40000
    /\ fetchTest.result.error = "SyntaxError"

\* the extractor exceeds its 60 s budget
C12_WitnessBudget ==
    /\ Called
    /\ ExtractionFails
    /\ fetchTest.env.aiLat >= 60000
    /\ Answered.error = "Timeout Interno IA"

ScrapeKeyMissing == fetchTest.mode = "scrape" /\ ~fetchTest.env.hasFirecrawl

\* C14 as stated: when the credential the source's backend requires is missing
\* (the search key for a search source, the scrape key for a scrape source), no
\* upstream request is sent and the outcome is an error, not a warning.
C14_AsStated ==
    (Called /\ (KeyMissing \/ ScrapeKeyMissing)) =>
        /\ Answered.calls = <<>>
        /\ Answered.error \notin {Undefined, ""}
        /\ Answered.warning = Undefined

\* C14 (amended): a search task without the search key is answered before any
\* upstream request with zero events and the warning "Sem chave Serper", with no
\* error; the scrape key is not looked at: a scrape task without it sends its
\* upstream request all the same, and is answered as the fetch and what follows
\* it turn out, exactly as if the key were set.
C14_MissingKey ==
    Called =>
        /\ KeyMissing =>
              /\ Answered.calls = <<>>
              /\ Answered.at = 0
              /\ Answered.events = <<>>
              /\ Answered.warning = "Sem chave Serper"
              /\ Answered.error = Undefined
        /\ ScrapeKeyMissing =>
              /\ Answered.calls # <<>>
              /\ Answered.calls[1] = "fetch"
              /\ Answered =
                    SearchSourceHandler("scrape", [fetchTest.env EXCEPT !.hasFirecrawl = TRUE])

\* the search key is missing
C14_Witness ==
    /\ Called
    /\ KeyMissing
    /\ fetchTest.env.net = "ok"
    /\ fetchTest.result.warning = "Sem chave Serper"

\* the scrape key is missing and the upstream refuses the request
C14_WitnessScrape ==
    /\ Called
    /\ ScrapeKeyMissing
    /\ fetchTest.env.fetchOut = "status"
    /\ Answered.warning = "Timeout site."

(***************************************************************************)
(* The client's 40 s timer as the scheduler sees it (C13)                  *)
(***************************************************************************)
\* the handler is still waiting for the extractor when the client's timer aborts
\* the request at 40 s
EnvSlowHandler ==
    [net |-> "ok", hasSerper |-> TRUE, hasFirecrawl |-> TRUE, fetchLat |-> 1000,
     fetchOut |-> "ok", contentLen |-> 50, aiLat |-> 100000, aiOut |-> "ok",
     aiEvents |-> TwoEvents]
\* the handler answers after 1 s with the warning of a failed fetch
EnvWarned ==
    [net |-> "ok", hasSerper |-> TRUE, hasFirecrawl |-> TRUE, fetchLat |-> 1000,
     fetchOut |-> "status", contentLen |-> 50, aiLat |-> 1000, aiOut |-> "ok",
     aiEvents |-> TwoEvents]
TimedOutAtClient(i) == got[i] = Observed(Task(SOURCES[i].mode, EnvSlowHandler))
WarnedByBackend(i) == got[i] = Observed(Task(SOURCES[i].mode, EnvWarned))
WarningShownFor(i) == \E k \in 1..Len(warnings) : warnings[k][1] = SOURCES[i].id

\* C13 as stated: a source whose request was ended by the client's 40 s timer
\* ends in the status of a source whose backend returned a warning ('completed'),
\* and a warning is recorded for it.
C13_AsStated ==
    \A i \in 1..Len(SOURCES) :
        TimedOutAtClient(i) =>
            /\ sourceStatuses[i].status = "completed"
            /\ WarningShownFor(i)

\* C13 (amended): a request ended by the client's 40 s timer resolves to
\* { events: [], error } and the scheduler handles it as any other failure: the
\* source ends 'error' with count 0 and no warning is recorded for it, whereas a
\* source whose backend returned a warning ends 'completed' with count 0 and has
\* its warning recorded.
C13_ClientTimeoutIsFailure ==
    \A i \in 1..Len(SOURCES) :
        /\ TimedOutAtClient(i) =>
              /\ Task(SOURCES[i].mode, EnvSlowHandler).error = "AbortError"
              /\ sourceStatuses[i].status = "error"
              /\ sourceStatuses[i].count = 0
              /\ ~WarningShownFor(i)
        /\ WarnedByBackend(i) =>
              /\ sourceStatuses[i].status = "completed"
              /\ sourceStatuses[i].count = 0
              /\ WarningShownFor(i)

\* one source of each kind in a completed run
C13_Witness ==
    /\ Completed
    /\ \E i, j \in 1..Len(SOURCES) : TimedOutAtClient(i) /\ WarnedByBackend(j)

(***************************************************************************)
(* Runs that overlap (C15, C20): "Ver Resultados Parciais agora", then      *)
(* "Nova Busca" and "Iniciar Varredura" while requests of the earlier run   *)
(* are still in flight                                                      *)
(***************************************************************************)
LatestRun == Len(runs)
\* this step is the rest of processNext of a worker of run r
SettlesIn(r) == r \in 1..Len(runs) /\ Len(runs') = Len(runs) /\ runs'[r] # runs[r]
StartsRun == Len(runs') = Len(runs) + 1

\* C15: statuses, merged list and warnings are reset at the start of each run,
\* and a worker of an earlier run that settles after a new run has started
\* changes none of the three.
C15_RunIsolation ==
    [][ /\ StartsRun =>
              /\ events' = <<>>
              /\ warnings' = <<>>
              /\ \A i \in 1..Len(SOURCES) :
                    sourceStatuses'[i].status \in {"pending", "loading"}
        /\ \A r \in 1..MaxRuns :
              (SettlesIn(r) /\ r < LatestRun) =>
                  UNCHANGED <<sourceStatuses, events, warnings>> ]_vars

(***************************************************************************)
(* The merges of one run (C16)                                             *)
(***************************************************************************)
\* this step is the rest of processNext for source i
SettledNow(i) == sourceStatuses[i].status = "loading" /\ Terminal(sourceStatuses'[i].status)
Orderings(S) ==
    { f \in [1..Cardinality(S) -> S] : \A a, b \in DOMAIN f : a # b => f[a] # f[b] }
RECURSIVE FoldMerge(_, _, _)
FoldMerge(results, acc, order) ==
    IF order = <<>> THEN acc
    ELSE FoldMerge(results, Merge(acc, results[Head(order)].events), Tail(order))
MergedSources(counts) == { i \in DOMAIN counts : counts[i] > 0 }

\* C16: each merge is computed against the list that holds the effect of every
\* merge applied before it, and nothing else changes the list, so that the list
\* of the completed run is the fold of the merge over the outcomes in an order
\* of completion; the merge is invoked once per task that did not fail and
\* never for one that did.
C16_MergesSerialized ==
    [][ /\ \A i \in 1..Len(SOURCES) :
              SettledNow(i) =>
                  /\ events' = (IF got'[i].threw THEN events
                                ELSE Merge(events, got'[i].events))
                  /\ merges' = [merges EXCEPT ![i] = IF got'[i].threw THEN 0 ELSE 1]
        /\ (\A i \in 1..Len(SOURCES) : ~SettledNow(i)) =>
              /\ events' = events
              /\ merges' = merges
        /\ Completed' =>
              /\ MergedSources(merges') =
                    { i \in 1..Len(SOURCES) : sourceStatuses'[i].status = "completed" }
              /\ \E order \in Orderings(MergedSources(merges')) :
                    events' = FoldMerge(got', <<>>, order) ]_vars

\* three sources merged, the later merges discarding and keeping candidates
C16_Witness ==
    /\ Completed
    /\ Cardinality(MergedSources(merges)) = 3
    /\ \A i \in 1..3 : got[i].events # <<>>
    /\ got[1].events = TwoEvents
    /\ events = <<Ev(TitleSummit2024), Ev(TitleDifferent)>>

(***************************************************************************)
(* "Ver Resultados Parciais agora" during a run (C17)                      *)
(***************************************************************************)
\* the run goes on although handleManualFinish has cleared `loading`
EarlyFinished == Started /\ ~Completed /\ ~loading
ManualFinishNow == loading /\ ~loading' /\ ~Completed'

\* what C17 says of a single step
EarlyTerminationStep ==
    /\ ManualFinishNow =>
          /\ runs' = runs
          /\ InFlight(runs'[1]) # {}
          /\ UNCHANGED <<sourceStatuses, events, warnings>>
    /\ \A i \in 1..Len(SOURCES) :
          (EarlyFinished /\ SettledNow(i)) =>
              /\ sourceStatuses'[i].count = (IF got'[i].threw THEN 0 ELSE Len(got'[i].events))
              /\ events' = (IF got'[i].threw THEN events ELSE Merge(events, got'[i].events))
              /\ (runs[1].queue # <<>>) =>
                    /\ runs'[1].queue = Tail(runs[1].queue)
                    /\ sourceStatuses'[Head(runs[1].queue).id].status = "loading"
    /\ (EarlyFinished /\ Completed') =>
          /\ step' = step
          /\ AllTerminal'
    /\ (Started /\ ~Completed /\ Completed') =>
          step' = (IF step = "loading" THEN "curation" ELSE step)

\* C17: handleManualFinish cancels no request in flight and leaves the queue as
\* it is; afterwards every completion still writes its source's status, merges
\* its events and starts the next queued source; the run goes on to complete
\* with every status terminal, and its completion leaves the step the user is
\* on unchanged (the move to 'curation' happens only from 'loading').
C17_EarlyTermination ==
    /\ [][EarlyTerminationStep]_vars
    /\ (EarlyFinished ~> (Completed /\ AllTerminal))

\* the user has gone back to the start screen while a source is still queued
C17_Witness ==
    /\ EarlyFinished
    /\ step = "home"
    /\ runs[1].queue # <<>>
    /\ InFlight(runs[1]) # {}

\* the run has completed behind the report screen
C17_WitnessCompleted ==
    /\ Completed
    /\ step = "report"
    /\ AllTerminal
    /\ \E i \in 1..Len(SOURCES) : got[i].threw

(***************************************************************************)
(* How the merged list changes (C18)                                       *)
(***************************************************************************)
IsPrefix(a, b) == Len(a) <= Len(b) /\ SubSeq(b, 1, Len(a)) = a
Appended(a, b) == SubSeq(b, Len(a) + 1, Len(b))
\* sub is seq with some elements left out, the others in their order
RECURSIVE Embeds(_, _)
Embeds(sub, seq) ==
    IF sub = <<>> THEN TRUE
    ELSE IF seq = <<>> THEN FALSE
    ELSE IF Head(sub) = Head(seq) THEN Embeds(Tail(sub), Tail(seq))
    ELSE Embeds(sub, Tail(seq))
MergeKeepsPrefix ==
    \A i \in 1..Len(SOURCES) :
        SettledNow(i) =>
            /\ IsPrefix(events, events')
            /\ Embeds(Appended(events, events'), got'[i].events)
            /\ got'[i].threw => events' = events
RemovedByUser ==
    /\ step = "curation"
    /\ \E k \in 1..Len(events) : events' = RemoveAt(events, k)
    /\ \A i \in 1..Len(SOURCES) : ~SettledNow(i)

\* C18 as stated: every merge leaves the existing list as a prefix and appends
\* the surviving candidates in the order the task produced them, and during a
\* run (from its start to its completion) the merged list only grows.
C18_AsStated ==
    [][ /\ MergeKeepsPrefix
        /\ (Started /\ ~Completed) => IsPrefix(events, events') ]_vars

\* C18 (amended): every merge leaves the existing list as a prefix and appends
\* the surviving candidates in the order the task produced them, so candidates
\* of different sources stand in completion order; during a run the merges only
\* make the list grow, and the one step that shrinks it is the user removing a
\* card (handleRemoveEvent, possible once partial results are shown).
C18_MergeAppends ==
    [][ /\ MergeKeepsPrefix
        /\ ~IsPrefix(events, events') => RemovedByUser ]_vars

\* the second source of the list completed first: its events head the list, and
\* the first source's candidate, arriving later, was the one discarded
C18_Witness ==
    /\ Completed
    /\ Len(SOURCES) = 2
    /\ got[1].events = <<Ev(TitleSummit2024)>>
    /\ got[2].events = TwoEvents
    /\ ~got[1].threw /\ ~got[2].threw
    /\ events = TwoEvents

\* a card removed while the run goes on
C18_WitnessRemoved ==
    /\ EarlyFinished
    /\ events = <<>>
    /\ \E i \in 1..Len(SOURCES) : got[i].events # <<>> /\ ~got[i].threw

(***************************************************************************)
(* The queue of one run (C19)                                              *)
(***************************************************************************)
Queue == IF Started THEN runs[1].queue ELSE SOURCES
Queued == { Queue[k].id : k \in 1..Len(Queue) }
\* the workers awaiting the request of source id
Holders(id) == IF Started THEN { w \in DOMAIN runs[1].workers : runs[1].workers[w] = id } ELSE {}
Dequeued == { SOURCES[k].id : k \in 1..Len(SOURCES) } \ Queued

\* in every state: the queue is the rest of the source list, and each source is
\* either still queued, or with exactly one worker, or done with
EachSourceOnce ==
    /\ Queue = SubSeq(SOURCES, Len(SOURCES) - Len(Queue) + 1, Len(SOURCES))
    /\ \A i \in 1..Len(SOURCES) :
          LET id == SOURCES[i].id
          IN  \/ /\ id \in Queued
                 /\ Holders(id) = {}
                 /\ sourceStatuses[i].status = "pending"
                 /\ got[i] = NoResult
              \/ /\ id \notin Queued
                 /\ Cardinality(Holders(id)) = 1
                 /\ sourceStatuses[i].status = "loading"
                 /\ got[i] = NoResult
              \/ /\ id \notin Queued
                 /\ Holders(id) = {}
                 /\ Terminal(sourceStatuses[i].status)
                 /\ got[i] # NoResult
                 /\ writes[i] = 2
    /\ Completed => Queue = <<>>

\* in every step: what leaves the queue leaves it from the front, goes to a
\* worker in that step, and never comes back; a completion dequeues at most the
\* head, for the worker that completed
DequeueStep ==
    /\ Dequeued \subseteq Dequeued'
    /\ \A id \in Dequeued' \ Dequeued : Cardinality(Holders(id)') = 1
    /\ \A i \in 1..Len(SOURCES) :
          SettledNow(i) =>
              /\ Queue' = (IF Queue = <<>> THEN <<>> ELSE Tail(Queue))
              /\ \A w \in Holders(SOURCES[i].id) :
                    runs'[1].workers[w] = (IF Queue = <<>> THEN 0 ELSE Head(Queue).id)

\* C19: every source is dequeued exactly once, by exactly one worker, in the
\* order of the source list; none is processed twice and none is skipped.
C19_DequeuedOnce == []EachSourceOnce /\ [][DequeueStep]_vars

\* two workers, the first has completed its source and taken the third
C19_Witness ==
    /\ Started
    /\ Len(SOURCES) = 3
    /\ concurrency = 2
    /\ Terminal(sourceStatuses[1].status)
    /\ runs[1].workers = <<3, 2>>
    /\ Queue = <<>>

\* the other worker took it
C19_WitnessOther ==
    /\ Started
    /\ Len(SOURCES) = 3
    /\ concurrency = 2
    /\ Terminal(sourceStatuses[2].status)
    /\ runs[1].workers = <<1, 3>>

(***************************************************************************)
(* Leaving the loading screen (C20)                                        *)
(***************************************************************************)
\* the step leaves 'loading' in the completion of a handleSearch, not by the
\* click handled by handleManualFinish (which touches no run)
LeftLoadingAutomatically == step = "loading" /\ step' # "loading" /\ runs' # runs

\* C20: whenever the UI leaves 'loading' automatically, every status shown is
\* 'completed' or 'error', after any sequence of user actions and completions.
C20_TerminalWhenLeavingLoading ==
    [][ LeftLoadingAutomatically =>
            \A i \in 1..Len(SOURCES) : Terminal(sourceStatuses'[i].status) ]_vars

(***************************************************************************)
(* When the extractor is called (C21)                                      *)
(***************************************************************************)
ExtractorCalled == \E k \in 1..Len(Answered.calls) : Answered.calls[k] = "extract"
FetchSucceeds == ~KeyMissing /\ ~FetchFails
ContentTooShort == FetchSucceeds /\ fetchTest.env.contentLen < 50

\* C21: the extractor is called only after a successful fetch whose content has
\* at least 50 characters; when the fetch fails, or the content is empty or
\* shorter than 50 characters, the handler answers with zero events and a
\* warning, and the extractor is not called for that request.
C21_ExtractorOnlyAfterContent ==
    Called =>
        /\ ExtractorCalled <=> (FetchSucceeds /\ fetchTest.env.contentLen >= 50)
        /\ (FetchFails \/ ContentTooShort) =>
              /\ Answered.events = <<>>
              /\ Answered.warning \notin {Undefined, ""}
              /\ Answered.error = Undefined
              /\ Answered.calls = <<"fetch">>

\* 49 characters of content: one short of the threshold
C21_Witness ==
    /\ Called
    /\ FetchSucceeds
    /\ fetchTest.env.contentLen = 49
    /\ Answered.warning = "Conteudo vazio ou insuficiente."
    /\ ~ExtractorCalled

\* exactly 50 characters: the extractor is called
C21_WitnessThreshold ==
    /\ Called
    /\ FetchSucceeds
    /\ fetchTest.env.contentLen = 50
    /\ ExtractorCalled

(***************************************************************************)
(* Who writes which status entry (C22)                                     *)
(***************************************************************************)
OneEntryPerSource ==
    /\ Len(sourceStatuses) = Len(SOURCES)
    /\ \A i \in 1..Len(SOURCES) : sourceStatuses[i].id = SOURCES[i].id
\* entry i is written 'loading' in this step, by the worker that dequeues its source
LoadingWrittenByDequeuer(i) ==
    /\ sourceStatuses[i].status = "pending"
    /\ sourceStatuses'[i] = [sourceStatuses[i] EXCEPT !.status = "loading"]
    /\ SOURCES[i].id \in Dequeued' \ Dequeued
    /\ Cardinality(Holders(SOURCES[i].id)') = 1
\* entry i is written its outcome in this step, by the one worker that held its
\* source and now lets go of it
OutcomeWrittenByHolder(i) ==
    /\ SettledNow(i)
    /\ Cardinality(Holders(SOURCES[i].id)) = 1
    /\ Holders(SOURCES[i].id)' = {}
    /\ \A j \in 1..Len(SOURCES) :
          (j # i /\ sourceStatuses'[j] # sourceStatuses[j]) =>
              (Queue # <<>> /\ SOURCES[j].id = Head(Queue).id)
StatusWriteStep ==
    /\ OneEntryPerSource'
    /\ \A i \in 1..Len(SOURCES) :
          sourceStatuses'[i] # sourceStatuses[i] =>
              (LoadingWrittenByDequeuer(i) \/ OutcomeWrittenByHolder(i))

\* C22: a status write changes only the entry of the source the writing worker
\* dequeued; the other entries, the number of entries and their order stay as
\* they are, so there is always exactly one entry per source, and an entry is
\* written only by the worker that dequeued its source.
C22_StatusFrame == []OneEntryPerSource /\ [][StatusWriteStep]_vars

\* three workers in flight, the second has written its outcome; the entries of
\* the other two are as their own workers left them
C22_Witness ==
    /\ Started
    /\ Len(SOURCES) = 3
    /\ runs[1].workers = <<1, 0, 3>>
    /\ sourceStatuses[1].status = "loading"
    /\ sourceStatuses[2] = [id |-> 2, status |-> "completed", count |-> 2]
    /\ sourceStatuses[3].status = "loading"

(***************************************************************************)
(* The caller's 40 s against the handler's budgets (C23)                   *)
(***************************************************************************)
SearchBudgetExpires == fetchTest.mode = "search" /\ ~KeyMissing /\ FetchTimerFires
ScrapeBudgetExpires == fetchTest.mode = "scrape" /\ FetchTimerFires
ExtractionBudgetExpires == ReachesExtraction /\ fetchTest.env.aiLat >= 60000
\* the handler's answer is sent when the caller's timer has already aborted the request
CallerStoppedWaiting == Answered.at >= 40000

\* C23 as stated: whenever a budget of the handler expires (search fetch, scrape
\* fetch, extraction), the caller has already stopped waiting for the request.
C23_AsStated ==
    (Called /\ (SearchBudgetExpires \/ ScrapeBudgetExpires \/ ExtractionBudgetExpires)) =>
        CallerStoppedWaiting

\* C23 (amended): the caller's 40 s is shorter than the scrape fetch budget (90 s)
\* and the extraction budget (60 s), and whenever one of these expires the caller
\* has already stopped waiting: its result is the abort error. It is longer than
\* the search fetch budget (30 s): when that expires the caller is still waiting
\* and receives the handler's warning.
C23_CallerTimeoutAgainstBudgets ==
    Called =>
        /\ (ScrapeBudgetExpires \/ ExtractionBudgetExpires) =>
              /\ CallerStoppedWaiting
              /\ fetchTest.env.net = "ok" =>
                    /\ fetchTest.result.error = "AbortError"
                    /\ fetchTest.result.warning = Undefined
        /\ SearchBudgetExpires =>
              /\ Answered.at = 30000
              /\ ~CallerStoppedWaiting
              /\ fetchTest.env.net = "ok" =>
                    /\ fetchTest.result.warning = "Timeout busca."
                    /\ fetchTest.result.error = Undefined

\* the search budget expires and the caller receives the warning
C23_Witness ==
    /\ Called
    /\ SearchBudgetExpires
    /\ fetchTest.env.net = "ok"
    /\ fetchTest.result.warning = "Timeout busca."

\* the extraction budget expires after the caller has gone
C23_WitnessExtraction ==
    /\ Called
    /\ ExtractionBudgetExpires
    /\ fetchTest.env.fetchLat = 1000
    /\ Answered.at = 61000
    /\ fetchTest.env.net = "ok"
    /\ fetchTest.result.error = "AbortError"

(***************************************************************************)
(* The warning list of one run (C24)                                       *)
(***************************************************************************)
WarningsOf(i) == { k \in 1..Len(warnings) : warnings[k][1] = SOURCES[i].id }
WarnedWithoutError(i) ==
    got[i].settled = "fulfilled" /\ got[i].warning \notin {Undefined, ""} /\ ~got[i].threw

\* C24: the warning list never holds the same message twice; every message
\* carries the name of the source that produced it; a source contributes at most
\* one warning per run; and a source that returns a warning without an error
\* ends 'completed' with count 0.
C24_WarningList ==
    /\ \A k, l \in 1..Len(warnings) : k # l => warnings[k] # warnings[l]
    /\ \A k \in 1..Len(warnings) :
          \E i \in 1..Len(SOURCES) :
              /\ warnings[k][1] = SOURCES[i].id
              /\ warnings[k][2] = got[i].warning
    /\ \A i \in 1..Len(SOURCES) :
          /\ Cardinality(WarningsOf(i)) <= 1
          /\ WarnedWithoutError(i) =>
                /\ Cardinality(WarningsOf(i)) = 1
                /\ sourceStatuses[i] = [id |-> SOURCES[i].id, status |-> "completed", count |-> 0]

\* two sources return the same warning text: two messages, one per source
C24_Witness ==
    /\ Completed
    /\ Len(SOURCES) = 3
    /\ warnings = << <<3, "Timeout site.">>, <<2, "Timeout site.">> >>
    /\ WarnedWithoutError(2) /\ WarnedWithoutError(3)
    /\ ~WarnedWithoutError(1)

(***************************************************************************)
(* Duplicates left in the merged list (C25)                                *)
(***************************************************************************)
\* Two merges from the empty list: the first, of the list mergeTest.acc, keeps
\* all of it (nothing is accumulated yet); the second is of mergeTest.incoming.
FirstMerge == Merge(<<>>, mergeTest.acc)
SecondMerge == mergeTest.results[1]
\* positions i < j of list l are duplicates under the rule
DuplicatePair(l, i, j) == i < j /\ RuleDiscards(<<l[i]>>, l[j])
DuplicatePairs(l) == { p \in (1..Len(l)) \X (1..Len(l)) : DuplicatePair(l, p[1], p[2]) }
SameIncomingList(p) == p[2] <= Len(mergeTest.acc) \/ p[1] > Len(mergeTest.acc)

\* C25 as stated: after any sequence of merges from the empty list, the merged
\* list has no two positions i < j that are duplicates under the rule, also when
\* both candidates arrived in the same incoming list.
C25_AsStated == MergedOnce => DuplicatePairs(SecondMerge) = {}

\* C25 (amended): after any sequence of merges from the empty list, no candidate
\* of the merged list is a duplicate, under the rule, of a candidate that an
\* earlier merge put there; candidates that arrive in the same incoming list are
\* not compared with each other, and duplicates among them all stay.
C25_NoDuplicateAcrossMerges ==
    MergedOnce =>
        /\ FirstMerge = mergeTest.acc
        /\ \A p \in DuplicatePairs(SecondMerge) : SameIncomingList(p)
        \* whether a candidate stays depends on the earlier merges only
        /\ Appended(mergeTest.acc, SecondMerge) = RuleKeeps(mergeTest.acc, mergeTest.incoming)

\* the second merge brings two candidates that are duplicates of each other:
\* both are appended
C25_Witness ==
    /\ MergedOnce
    /\ mergeTest.acc = <<Ev(TitleDifferent)>>
    /\ mergeTest.incoming = <<Ev(TitleSummit2024), Ev(TitleSummitHall)>>
    /\ SecondMerge = <<Ev(TitleDifferent), Ev(TitleSummit2024), Ev(TitleSummitHall)>>
    /\ DuplicatePairs(SecondMerge) = {<<2, 3>>}

\* a candidate that duplicates one of the first merge is discarded by the second
C25_WitnessAcross ==
    /\ MergedOnce
    /\ mergeTest.acc = <<Ev(TitleSummit2024)>>
    /\ mergeTest.incoming = <<Ev(TitleSummitHall), Ev(TitleDifferent)>>
    /\ SecondMerge = <<Ev(TitleSummit2024), Ev(TitleDifferent)>>

(***************************************************************************)
(* Counts against the length of the merged list (C26)                      *)
(***************************************************************************)
RECURSIVE SumCountsFrom(_)
SumCountsFrom(i) ==
    IF i > Len(sourceStatuses) THEN 0
    ELSE (IF sourceStatuses[i].status = "completed" THEN sourceStatuses[i].count ELSE 0)
         + SumCountsFrom(i + 1)
\* the sum of the counts of the completed sources
SumCounts == SumCountsFrom(1)
\* this step's merge for source i appends fewer candidates than the task returned
DiscardsNow(i) ==
    /\ SettledNow(i)
    /\ ~got'[i].threw
    /\ Len(events') - Len(events) < Len(got'[i].events)
CountsAreReturned ==
    /\ Len(events) <= SumCounts
    /\ \A i \in 1..Len(SOURCES) :
          sourceStatuses[i].status = "completed" => sourceStatuses[i].count = Len(got[i].events)
\* the distance between the sum and the length never shrinks, and a merge that
\* discards makes it positive
CountStep ==
    /\ SumCounts' - Len(events') >= SumCounts - Len(events)
    /\ \A i \in 1..Len(SOURCES) : DiscardsNow(i) => Len(events') < SumCounts'

\* C26: the count of a completed source is the number of events its task
\* returned, before dedup; so during a run the merged list is at most as long as
\* the sum of the counts of the completed sources, and strictly shorter from the
\* moment dedup has discarded a candidate.
C26_CountBeforeDedup == []CountsAreReturned /\ [][CountStep]_vars

\* the second source's first candidate was discarded: counts 1 + 2, two events
C26_Witness ==
    /\ Completed
    /\ Len(SOURCES) = 2
    /\ sourceStatuses[1] = [id |-> 1, status |-> "completed", count |-> 1]
    /\ sourceStatuses[2] = [id |-> 2, status |-> "completed", count |-> 2]
    /\ events = <<Ev(TitleSummit2024), Ev(TitleDifferent)>>
    /\ SumCounts = 3


-----------------------------------------------------------------------------
(* The responses of one request (C27, SpecHandler) *)

HandlerEnded == handlerTest.pc = "done"
ResponsesSent == Len(handlerTest.sent)
\* the extractor's promise settled after the timer of withTimeout had fired
SettledAfterTimeout ==
    handlerTest.timer = "fired" /\ handlerTest.aiPromise \in {"fulfilled", "rejected"}
    /\ handlerTest.env.aiLat >= AiTimeout
\* the timer fired after the extractor's promise had been rejected
FiredAfterRejection ==
    handlerTest.timer = "fired" /\ handlerTest.aiPromise = "rejected"
    /\ handlerTest.env.aiLat < AiTimeout

\* C27: a request with url and sourceName present is answered exactly once on
\* every path: never twice, whatever settles afterwards (the extractor's promise
\* after the timeout fired included); while no response is sent the handler still
\* has a step to take, and when it ends it has sent one response, the one the
\* path calls for.
C27_ExactlyOneResponse ==
    handlerTest.pc # "idle" =>
        /\ ResponsesSent <= 1
        /\ HandlerEnded <=> ResponsesSent = 1
        /\ HandlerEnded =>
              handlerTest.sent = <<SearchSourceHandler(handlerTest.mode, handlerTest.env)>>
        /\ ~HandlerEnded => ENABLED NextHandler

\* the extractor's promise is fulfilled after the timeout was answered
C27_Witness ==
    /\ SettledAfterTimeout
    /\ handlerTest.aiPromise = "fulfilled"
    /\ handlerTest.sent = <<OuterCatchReply(handlerTest.env.fetchLat + AiTimeout,
                                            "Timeout Interno IA")>>

\* the extractor's promise is rejected in time and the timer fires afterwards
C27_WitnessLateTimer ==
    /\ FiredAfterRejection
    /\ ResponsesSent = 1
    /\ handlerTest.sent[1].error = "AI error"
====
